---- MODULE Spec2Model ----
(***************************************************************************)
(* Boundary-tag allocator (src/src/lib.rs, src/src/memory_region.rs).      *)
(*                                                                         *)
(* Memory is modelled as the set of addresses at which a BoundaryTag       *)
(* header currently lives, each mapped to the value of its five fields.    *)
(* Option<usize> is modelled as a set: {} is None, {a} is Some(a).         *)
(***************************************************************************)
EXTENDS Integers, Sequences, FiniteSets, TLC

\* ------------------------------------------------------------------ bounds

\* Largest number of calls made in one run.
MaxOps == 4

\* ------------------------------------------------------- program constants

\* mem::size_of::<BoundaryTag>() for the #[repr(C)] struct on a 64-bit
\* target: 2 bools padded to 8, usize 8, two Option<usize> of 16 each.
HeaderSize == 48

\* ------------------------------------------------------------------ inputs

\* mem::size_of::<T>() of the requests made to malloc / divide.
Sizes == {1024, 4000, 4096}

\* The (addr, size) pairs handed to BoundaryTag::from_memory at start-up,
\* one list per configuration of the manager.
RegionLists ==
    { <<[addr |-> 4096, size |-> 4096]>>,
      <<[addr |-> 4096, size |-> 4096], [addr |-> 8192, size |-> 8192]>>,
      <<[addr |-> 4096, size |-> 8192], [addr |-> 16384, size |-> 8192]>> }

VARIABLES
    regions,      \* the MemoryRegion descriptors the manager was built from
    tags,         \* MemoryManager.tags: the slice of tag handles, in order
    mem,          \* address -> BoundaryTag header stored at that address
    outstanding,  \* pointers returned by malloc and not yet passed to free
    last,         \* the last call made and what it returned
    hist,         \* the calls made on the MemoryManager so far (ArenaSpec)
    ops,          \* number of calls made so far
    debug_assertions  \* cfg!(debug_assertions) of the build

vars == <<regions, tags, mem, outstanding, last, hist, ops, debug_assertions>>

\* ----------------------------------------------------------------- helpers

Put(m, a, t) == [x \in (DOMAIN m) \cup {a} |-> IF x = a THEN t ELSE m[x]]

Drop(m, S) == [x \in (DOMAIN m) \ S |-> m[x]]

The(S) == CHOOSE x \in S : TRUE

Min(S) == CHOOSE x \in S : \A y \in S : x <= y

\* ------------------------------------------------------------ BoundaryTag

\* BoundaryTag::addr_free_area: the address right after the header.
addr_free_area(a) == a + HeaderSize

\* BoundaryTag::from_memory: the header written for a block of `size` bytes.
FreshTag(size) ==
    [ is_alloc       |-> FALSE,
      is_sentinel    |-> TRUE,
      free_area_size |-> size - HeaderSize,
      prev_tag_addr  |-> {},
      next_tag_addr  |-> {} ]

\* Writing a header at `a` destroys every other header whose bytes it
\* overlaps: those addresses stop holding a tag.
Overlapped(m, a) ==
    { b \in DOMAIN m : b # a /\ b > a - HeaderSize /\ b < a + HeaderSize }

from_memory(m, a, size) == Put(Drop(m, Overlapped(m, a)), a, FreshTag(size))

\* BoundaryTag::next_tag_of / prev_tag_of: the neighbour's address, if any.
next_tag_of(m, t) == m[t].next_tag_addr

prev_tag_of(m, t) == m[t].prev_tag_addr

\* self.is_next_of(tag): tag's stored next address is self's address.
is_next_of(m, self, tag) == next_tag_of(m, tag) = {self}

\* self.is_prev_of(tag): tag's stored prev address is self's address.
is_prev_of(m, self, tag) == prev_tag_of(m, tag) = {self}

\* divide declining only below the required size (`<` for `<=`).
divide_lt(m, tag, request_size) ==
    LET required_size == request_size + HeaderSize
        free_area_size == m[tag].free_area_size
    IN  IF free_area_size < required_size
        THEN [mem |-> m, new_tag |-> {}]
        ELSE LET new_tag_addr == addr_free_area(tag) + free_area_size - required_size
                 m1 == [m EXCEPT ![tag].free_area_size = free_area_size - required_size,
                                 ![tag].is_sentinel = FALSE,
                                 ![tag].next_tag_addr = {new_tag_addr}]
                 m2 == from_memory(m1, new_tag_addr, required_size)
                 m3 == [m2 EXCEPT ![new_tag_addr].prev_tag_addr = {tag}]
             IN  [mem |-> m3, new_tag |-> {new_tag_addr}]

\* divide shrinking the tag before it tests whether the request fits.
divide_eager(m, tag, request_size) ==
    LET required_size == request_size + HeaderSize
        free_area_size == m[tag].free_area_size
        m1 == [m EXCEPT ![tag].free_area_size = free_area_size - required_size,
                        ![tag].is_sentinel = FALSE]
    IN  IF free_area_size <= required_size
        THEN [mem |-> m1, new_tag |-> {}]
        ELSE LET new_tag_addr == addr_free_area(tag) + free_area_size - required_size
                 m2 == from_memory([m1 EXCEPT ![tag].next_tag_addr = {new_tag_addr}],
                                   new_tag_addr, required_size)
                 m3 == [m2 EXCEPT ![new_tag_addr].prev_tag_addr = {tag}]
             IN  [mem |-> m3, new_tag |-> {new_tag_addr}]

\* divide computing the new tag's address from the shrunk free area without
\* the header: the new block no longer ends where the free area ended.
divide_misplaced(m, tag, request_size) ==
    LET required_size == request_size + HeaderSize
        free_area_size == m[tag].free_area_size
    IN  IF free_area_size <= required_size
        THEN [mem |-> m, new_tag |-> {}]
        ELSE LET new_tag_addr == tag + free_area_size - required_size
                 m1 == [m EXCEPT ![tag].free_area_size = free_area_size - required_size,
                                 ![tag].is_sentinel = FALSE,
                                 ![tag].next_tag_addr = {new_tag_addr}]
                 m2 == from_memory(m1, new_tag_addr, required_size)
                 m3 == [m2 EXCEPT ![new_tag_addr].prev_tag_addr = {tag}]
             IN  [mem |-> m3, new_tag |-> {new_tag_addr}]

\* divide not writing the shrunk free_area_size back to the tag.
divide_noshrink(m, tag, request_size) ==
    LET required_size == request_size + HeaderSize
        free_area_size == m[tag].free_area_size
    IN  IF free_area_size <= required_size
        THEN [mem |-> m, new_tag |-> {}]
        ELSE LET new_tag_addr == addr_free_area(tag) + free_area_size - required_size
                 m1 == [m EXCEPT ![tag].is_sentinel = FALSE,
                                 ![tag].next_tag_addr = {new_tag_addr}]
                 m2 == from_memory(m1, new_tag_addr, required_size)
                 m3 == [m2 EXCEPT ![new_tag_addr].prev_tag_addr = {tag}]
             IN  [mem |-> m3, new_tag |-> {new_tag_addr}]

\* divide leaving the new tag's prev_tag_addr as from_memory wrote it.
divide_noprev(m, tag, request_size) ==
    LET required_size == request_size + HeaderSize
        free_area_size == m[tag].free_area_size
    IN  IF free_area_size <= required_size
        THEN [mem |-> m, new_tag |-> {}]
        ELSE LET new_tag_addr == addr_free_area(tag) + free_area_size - required_size
                 m1 == [m EXCEPT ![tag].free_area_size = free_area_size - required_size,
                                 ![tag].is_sentinel = FALSE,
                                 ![tag].next_tag_addr = {new_tag_addr}]
                 m2 == from_memory(m1, new_tag_addr, required_size)
             IN  [mem |-> m2, new_tag |-> {new_tag_addr}]

\* BoundaryTag::divide: the memory afterwards and the new tag, if any.
divide(m, tag, request_size) ==
    LET required_size == request_size + HeaderSize
        free_area_size == m[tag].free_area_size
    IN  IF free_area_size <= required_size
        THEN [mem |-> m, new_tag |-> {}]
        ELSE LET new_tag_addr == addr_free_area(tag) + free_area_size - required_size
                 m1 == [m EXCEPT ![tag].free_area_size = free_area_size - required_size,
                                 ![tag].is_sentinel = FALSE,
                                 ![tag].next_tag_addr = {new_tag_addr}]
                 m2 == from_memory(m1, new_tag_addr, required_size)
                 m3 == [m2 EXCEPT ![new_tag_addr].prev_tag_addr = {tag}]
             IN  [mem |-> m3, new_tag |-> {new_tag_addr}]

\* merge taking its arguments as (prev, next) whenever tag_x is not the
\* next of tag_y, instead of panicking.
merge_nopanic(m, tag_x, tag_y) ==
    LET n == is_next_of(m, tag_x, tag_y)
        tag_prev == IF n THEN tag_y ELSE tag_x
        tag_next == IF n THEN tag_x ELSE tag_y
        m1 == [m EXCEPT
                 ![tag_prev].free_area_size =
                     m[tag_prev].free_area_size + HeaderSize
                       + m[tag_next].free_area_size,
                 ![tag_prev].is_sentinel = m[tag_next].is_sentinel,
                 ![tag_prev].next_tag_addr = m[tag_next].next_tag_addr]
    IN  [mem |-> Drop(m1, {tag_next}), ret |-> {tag_prev}, panic |-> FALSE]

\* merge leaving the surviving tag's is_sentinel as it was.
merge_keep_flag(m, tag_x, tag_y) ==
    LET p == is_prev_of(m, tag_x, tag_y)
        n == is_next_of(m, tag_x, tag_y)
    IN  IF p = n
        THEN [mem |-> m, ret |-> {}, panic |-> TRUE]
        ELSE LET tag_prev == IF p THEN tag_x ELSE tag_y
                 tag_next == IF p THEN tag_y ELSE tag_x
                 m1 == [m EXCEPT
                          ![tag_prev].free_area_size =
                              m[tag_prev].free_area_size + HeaderSize
                                + m[tag_next].free_area_size,
                          ![tag_prev].next_tag_addr = m[tag_next].next_tag_addr]
             IN  [mem |-> Drop(m1, {tag_next}), ret |-> {tag_prev}, panic |-> FALSE]

\* BoundaryTag::merge: panics unless exactly one adjacency holds; otherwise
\* the earlier tag absorbs the later one, whose header stops being a tag.
merge(m, tag_x, tag_y) ==
    LET p == is_prev_of(m, tag_x, tag_y)
        n == is_next_of(m, tag_x, tag_y)
    IN  IF p = n
        THEN [mem |-> m, ret |-> {}, panic |-> TRUE]
        ELSE LET tag_prev == IF p THEN tag_x ELSE tag_y
                 tag_next == IF p THEN tag_y ELSE tag_x
                 m1 == [m EXCEPT
                          ![tag_prev].free_area_size =
                              m[tag_prev].free_area_size + HeaderSize
                                + m[tag_next].free_area_size,
                          ![tag_prev].is_sentinel = m[tag_next].is_sentinel,
                          ![tag_prev].next_tag_addr = m[tag_next].next_tag_addr]
             IN  [mem |-> Drop(m1, {tag_next}), ret |-> {tag_prev}, panic |-> FALSE]

\* ---------------------------------------------------------- MemoryManager

Max(S) == CHOOSE x \in S : \A y \in S : x >= y

\* find returning the last matching handle instead of the first.
find_last(m, ts, request_size) ==
    LET hits == { i \in 1..Len(ts) : request_size < m[ts[i]].free_area_size }
    IN  IF hits = {} THEN {} ELSE {Max(hits)}

\* The `find` of malloc: index of the first handle of self.tags whose
\* free_area_size is greater than the request, if any.
find(m, ts, request_size) ==
    LET hits == { i \in 1..Len(ts) : request_size < m[ts[i]].free_area_size }
    IN  IF hits = {} THEN {} ELSE {Min(hits)}

\* malloc setting is_alloc on the tag it divided instead of the new tag.
malloc_marks_selected(m, ts, request_size) ==
    LET found == find(m, ts, request_size)
    IN  IF found = {}
        THEN [mem |-> m, tag |-> {}, ret |-> {}]
        ELSE LET tag == ts[The(found)]
                 d == divide(m, tag, request_size)
             IN  IF d.new_tag = {}
                 THEN [mem |-> d.mem, tag |-> {tag}, ret |-> {}]
                 ELSE LET t == The(d.new_tag)
                      IN  [mem |-> [d.mem EXCEPT ![tag].is_alloc = TRUE],
                           tag |-> {tag},
                           ret |-> {addr_free_area(t)}]

\* malloc going on to the next handle that divide accepts when the first
\* match is declined.
malloc_fallback(m, ts, request_size) ==
    LET fits == { i \in 1..Len(ts) :
                    request_size + HeaderSize < m[ts[i]].free_area_size }
    IN  IF fits = {}
        THEN [mem |-> m, tag |-> {}, ret |-> {}]
        ELSE LET tag == ts[Min(fits)]
                 d == divide(m, tag, request_size)
                 t == The(d.new_tag)
             IN  [mem |-> [d.mem EXCEPT ![t].is_alloc = TRUE],
                  tag |-> {tag},
                  ret |-> {addr_free_area(t)}]

\* MemoryManager::malloc: the memory afterwards, the tag `find` selected and
\* the address returned.
malloc(m, ts, request_size) ==
    LET found == find(m, ts, request_size)
    IN  IF found = {}
        THEN [mem |-> m, tag |-> {}, ret |-> {}]
        ELSE LET tag == ts[The(found)]
                 d == divide(m, tag, request_size)
             IN  IF d.new_tag = {}
                 THEN [mem |-> d.mem, tag |-> {tag}, ret |-> {}]
                 ELSE LET t == The(d.new_tag)
                      IN  [mem |-> [d.mem EXCEPT ![t].is_alloc = TRUE],
                           tag |-> {tag},
                           ret |-> {addr_free_area(t)}]

\* MemoryManager::free: the body is empty.
free(m, p) == m

\* ------------------------------------------------------------------- state

Call(op, x, y, size, ret, panic) ==
    [op |-> op, x |-> x, y |-> y, size |-> size, ret |-> ret, panic |-> panic]

\* MemoryManager::new over one fresh tag per region.
Init ==
    /\ regions \in RegionLists
    /\ tags = [i \in 1..Len(regions) |-> regions[i].addr]
    /\ mem = [a \in {regions[i].addr : i \in 1..Len(regions)} |->
                FreshTag((CHOOSE r \in {regions[i] : i \in 1..Len(regions)} :
                            r.addr = a).size)]
    /\ outstanding = {}
    /\ last = Call("new", {}, {}, 0, {}, FALSE)
    /\ hist = <<>>
    /\ ops = 0
    /\ debug_assertions \in BOOLEAN

Tick == ops < MaxOps /\ ops' = ops + 1

MallocBody(size) ==
    LET r == malloc(mem, tags, size)
    IN  /\ mem' = r.mem
        /\ outstanding' = outstanding \cup r.ret
        /\ last' = Call("malloc", r.tag, {}, size, r.ret, FALSE)
        /\ UNCHANGED <<regions, tags, debug_assertions>>

FreeBody(p) ==
    /\ p \in outstanding
    /\ mem' = free(mem, p)
    /\ outstanding' = outstanding \ {p}
    /\ last' = Call("free", {p}, {}, 0, {}, FALSE)
    /\ UNCHANGED <<regions, tags, debug_assertions>>

\* --- ArenaSpec: the manager driven through malloc and free alone ----------

Allocate ==
    \E size \in Sizes :
        /\ Tick
        /\ MallocBody(size)
        /\ hist' = Append(hist, last')

Deallocate ==
    \E p \in outstanding :
        /\ Tick
        /\ FreeBody(p)
        /\ hist' = Append(hist, last')

ArenaNext == Allocate \/ Deallocate

ArenaSpec == Init /\ [][ArenaNext]_vars

\* --- Spec: malloc and free together with direct divide and merge calls ----

Malloc ==
    \E size \in Sizes :
        /\ Tick
        /\ MallocBody(size)
        /\ UNCHANGED hist

Free ==
    \E p \in outstanding :
        /\ Tick
        /\ FreeBody(p)
        /\ UNCHANGED hist

Divide ==
    \E tag \in DOMAIN mem, size \in Sizes :
        LET d == divide(mem, tag, size)
        IN  /\ Tick
            /\ mem' = d.mem
            /\ last' = Call("divide", {tag}, {}, size, d.new_tag, FALSE)
            /\ UNCHANGED <<regions, tags, outstanding, hist, debug_assertions>>

Merge ==
    \E tag_x \in DOMAIN mem, tag_y \in DOMAIN mem :
        LET r == merge(mem, tag_x, tag_y)
        IN  /\ Tick
            /\ mem' = r.mem
            /\ last' = Call("merge", {tag_x}, {tag_y}, 0, r.ret, r.panic)
            /\ UNCHANGED <<regions, tags, outstanding, hist, debug_assertions>>

Next == Malloc \/ Free \/ Divide \/ Merge

Spec == Init /\ [][Next]_vars

\* --- TagSpec: divide and merge called directly on the tags ----------------

TagNext == Divide \/ Merge

TagSpec == Init /\ [][TagNext]_vars

\* --- NewSpec: the manager from its construction on ------------------------

\* MemoryManager::new: debug_assert!(tags.len() != 0) panics in a build with
\* debug assertions and is compiled out otherwise.
new(ts, debug) ==
    IF debug /\ Len(ts) = 0
    THEN [tags |-> <<>>, panic |-> TRUE]
    ELSE [tags |-> ts, panic |-> FALSE]

\* One fresh tag per region, before any manager exists; the list of regions
\* may be empty.
InitNew ==
    /\ regions \in RegionLists \cup {<<>>}
    /\ tags = <<>>
    /\ mem = [a \in {regions[i].addr : i \in 1..Len(regions)} |->
                FreshTag((CHOOSE r \in {regions[i] : i \in 1..Len(regions)} :
                            r.addr = a).size)]
    /\ outstanding = {}
    /\ last = Call("start", {}, {}, 0, {}, FALSE)
    /\ hist = <<>>
    /\ ops = 0
    /\ debug_assertions \in BOOLEAN

Construct ==
    LET r == new([i \in 1..Len(regions) |-> regions[i].addr], debug_assertions)
    IN  /\ last.op = "start"
        /\ Tick
        /\ tags' = r.tags
        /\ last' = Call("new", {}, {}, 0, {}, r.panic)
        /\ UNCHANGED <<regions, mem, outstanding, hist, debug_assertions>>

\* A manager has been returned by new.
Built == last.op # "start" /\ ~(last.op = "new" /\ last.panic)

NewAllocate == Built /\ Allocate

NewDeallocate == Built /\ Deallocate

NewNext == Construct \/ NewAllocate \/ NewDeallocate

NewSpec == InitNew /\ [][NewNext]_vars

\* ------------------------------------------------------- reading the state

RECURSIVE ChainFrom(_, _, _)
\* The tags met by following next_tag_addr from `a`, in order.
ChainFrom(m, a, fuel) ==
    IF fuel = 0 \/ a \notin DOMAIN m
    THEN <<>>
    ELSE <<a>> \o (IF next_tag_of(m, a) = {}
                   THEN <<>>
                   ELSE ChainFrom(m, The(next_tag_of(m, a)), fuel - 1))

\* The chain of the region whose first tag is at `head`.
Chain(m, head) == ChainFrom(m, head, Cardinality(DOMAIN m))

Range(q) == { q[i] : i \in 1..Len(q) }

RECURSIVE SumFree(_, _)
SumFree(m, S) ==
    IF S = {} THEN 0
    ELSE LET a == The(S) IN m[a].free_area_size + SumFree(m, S \ {a})

\* The headers stored inside region r.
RegionTags(m, r) == { a \in DOMAIN m : r.addr <= a /\ a < r.addr + r.size }

RegionSet == Range(regions)

\* B is the tag right after A in memory, among the tags of region r.
IsNextInMemory(m, r, A, B) ==
    /\ A \in RegionTags(m, r)
    /\ B \in RegionTags(m, r)
    /\ A < B
    /\ \A c \in RegionTags(m, r) : ~(A < c /\ c < B)

IsMalloc(c, size) == c.op = "malloc" /\ c.size = size

IsFree(c, p) == c.op = "free" /\ c.x = {p}

\* ------------------------------------------------------------------ claims

\* C1 (as claimed): size conservation. For every region of length L, the
\* tags of the region's chain satisfy
\* sum(free_area_size) + HeaderSize * (number of tags) = L.
C1_SizeConservation ==
    \A r \in RegionSet :
        LET c == Range(Chain(mem, r.addr))
        IN  SumFree(mem, c) + HeaderSize * Cardinality(c) = r.size

\* C2 (as claimed): link consistency. Whenever B is the tag right after A in
\* the memory of a region, B starts where A's free area ends, A's next is B
\* and B's prev is A.
C2_LinkConsistency ==
    \A r \in RegionSet : \A A \in RegionTags(mem, r), B \in RegionTags(mem, r) :
        IsNextInMemory(mem, r, A, B) =>
            /\ B = addr_free_area(A) + mem[A].free_area_size
            /\ mem[A].next_tag_addr = {B}
            /\ mem[B].prev_tag_addr = {A}

\* C3 (as claimed): sentinel uniqueness. Exactly one tag of each region has
\* is_sentinel, it has no next_tag_addr, and it is the last tag of the
\* region in memory.
C3_SentinelUniqueness ==
    \A r \in RegionSet :
        LET S == { a \in RegionTags(mem, r) : mem[a].is_sentinel }
        IN  /\ Cardinality(S) = 1
            /\ \A a \in S : /\ mem[a].next_tag_addr = {}
                             /\ \A b \in RegionTags(mem, r) : b <= a

\* What deallocate is documented to do to the memory: clear is_alloc on the
\* tag at p - HeaderSize, merge it into a free previous neighbour, then merge
\* a free next neighbour into the result.
Deallocated(m, p) ==
    LET t  == p - HeaderSize
        m0 == [m EXCEPT ![t].is_alloc = FALSE]
        pv == prev_tag_of(m0, t)
        r1 == IF pv # {} /\ The(pv) \in DOMAIN m0 /\ ~m0[The(pv)].is_alloc
              THEN merge(m0, The(pv), t)
              ELSE [mem |-> m0, ret |-> {t}, panic |-> FALSE]
        m1 == r1.mem
        u  == IF r1.ret = {} THEN t ELSE The(r1.ret)
        nx == next_tag_of(m1, u)
        r2 == IF nx # {} /\ The(nx) \in DOMAIN m1 /\ ~m1[The(nx)].is_alloc
              THEN merge(m1, u, The(nx))
              ELSE [mem |-> m1, ret |-> {u}, panic |-> FALSE]
    IN  r2.mem

\* C4 (as claimed): deallocate(p) of an outstanding pointer clears is_alloc
\* on the tag at p - HeaderSize and coalesces it with its free neighbours;
\* it is never a no-op.
C4_DeallocateCoalesces ==
    [][\A p \in outstanding :
          (ops' = ops + 1 /\ IsFree(last', p)) =>
              /\ mem' = Deallocated(mem, p)
              /\ mem' # mem]_vars

\* C5 (as claimed): on one fresh region, after allocating two blocks of the
\* same size and deallocating both in either order, the region is again a
\* single free sentinel tag of free_area_size = length - HeaderSize.
C5_FullReclamation ==
    (/\ Len(regions) = 1
     /\ Len(hist) = 4
     /\ hist[1].op = "malloc" /\ hist[1].ret # {}
     /\ hist[2].op = "malloc" /\ hist[2].ret # {}
     /\ hist[1].size = hist[2].size
     /\ hist[3].op = "free" /\ hist[4].op = "free"
     /\ hist[3].x \cup hist[4].x = hist[1].ret \cup hist[2].ret)
    => mem = [a \in {regions[1].addr} |-> FreshTag(regions[1].size)]

\* C5: the equal-size scenario has been run to its end.
C5_ScenarioRun ==
    /\ Len(regions) = 1
    /\ Len(hist) = 4
    /\ hist[1].op = "malloc" /\ hist[1].ret # {}
    /\ hist[2].op = "malloc" /\ hist[2].ret # {}
    /\ hist[1].size = hist[2].size
    /\ hist[3].op = "free" /\ hist[4].op = "free"

OneRegionOf4096 == Len(regions) = 1 /\ regions[1].size = 4096

\* The calls of the concrete scenario, in order: allocate(1024) = p,
\* allocate(4096), deallocate(p), allocate(4096 - 2H).
C6_Calls ==
    /\ OneRegionOf4096
    /\ Len(hist) >= 4
    /\ IsMalloc(hist[1], 1024)
    /\ IsMalloc(hist[2], 4096)
    /\ hist[3].op = "free" /\ hist[3].x = hist[1].ret
    /\ IsMalloc(hist[4], 4096 - 2 * HeaderSize)

\* C6 (as claimed): in the concrete scenario allocate(1024) succeeds,
\* allocate(4096) returns none and, after deallocate(p), allocate(4096 - 2H)
\* succeeds.
C6_ConcreteScenario ==
    C6_Calls => /\ hist[1].ret # {}
                /\ hist[2].ret = {}
                /\ hist[4].ret # {}

\* C6 (amended): on one fresh region of 4096 bytes allocate(1024) succeeds,
\* then allocate(4096) returns none, and allocate(4096 - 2H) returns none
\* too, after deallocate(p) as at any other moment.
C6_ScenarioAmended ==
    OneRegionOf4096 =>
        /\ (Len(hist) >= 1 /\ IsMalloc(hist[1], 1024)) => hist[1].ret # {}
        /\ (Len(hist) >= 2 /\ IsMalloc(hist[1], 1024) /\ IsMalloc(hist[2], 4096))
               => hist[2].ret = {}
        /\ \A i \in 1..Len(hist) :
               IsMalloc(hist[i], 4096 - 2 * HeaderSize) => hist[i].ret = {}

\* C6: the four calls of the scenario have been made.
C6_ScenarioRun == C6_Calls /\ hist[1].ret # {} /\ hist[4].ret = {}

\* C7: a malloc that returns None leaves every tag of every region as it
\* was.
C7_FailedMallocNoEffect ==
    [][(ops' = ops + 1 /\ last'.op = "malloc" /\ last'.ret = {}) => mem' = mem]_vars

\* C7: a malloc has failed because divide declined the selected tag.
C7_SplitDeclined == last.op = "malloc" /\ last.ret = {} /\ last.x # {}

RECURSIVE ScanOrder(_, _, _)
\* The tags of all chains, chain after chain in the order of self.tags.
ScanOrder(m, ts, i) ==
    IF i > Len(ts) THEN <<>> ELSE Chain(m, ts[i]) \o ScanOrder(m, ts, i + 1)

\* The first tag in scan order that is free and larger than the request.
FirstFit(m, ts, size) ==
    LET q == ScanOrder(m, ts, 1)
        hits == { i \in 1..Len(q) :
                    ~m[q[i]].is_alloc /\ m[q[i]].free_area_size > size }
    IN  IF hits = {} THEN {} ELSE {q[Min(hits)]}

\* C8: malloc selects the first tag, in the scan order of all chains, that
\* is free and whose free_area_size is strictly greater than the request;
\* it returns None when there is none, and the tag selected is never an
\* allocated one.
C8_FirstFit ==
    [][(ops' = ops + 1 /\ last'.op = "malloc") =>
          /\ last'.x = FirstFit(mem, tags, last'.size)
          /\ (FirstFit(mem, tags, last'.size) = {} => last'.ret = {})
          /\ \A t \in last'.x : ~mem[t].is_alloc]_vars

\* C8: a malloc passed over the first region's tags, one of which is larger
\* than the request but allocated, and selected the second region's head.
C8_SecondRegionSelected ==
    /\ Len(tags) = 2
    /\ last.op = "malloc"
    /\ last.x = {tags[2]}
    /\ last.ret # {}
    /\ \E a \in RegionTags(mem, regions[1]) :
          mem[a].is_alloc /\ mem[a].free_area_size > last.size

\* C9: when the first handle whose free_area_size exceeds the request has
\* free_area_size <= request + HeaderSize, malloc returns None, whatever the
\* later handles could hold.
C9_NoFallback ==
    [][(ops' = ops + 1 /\ last'.op = "malloc") =>
          \A i \in find(mem, tags, last'.size) :
              mem[tags[i]].free_area_size <= last'.size + HeaderSize
                  => last'.ret = {}]_vars

\* C9: a malloc returned None although a later handle had room for the
\* request and its header.
C9_LaterTagHadRoom ==
    /\ last.op = "malloc"
    /\ last.ret = {}
    /\ \E i \in 1..Len(tags), j \in 1..Len(tags) :
          /\ last.x = {tags[i]}
          /\ i < j
          /\ mem[tags[j]].free_area_size > last.size + HeaderSize

\* C10: divide(tag, n) makes no tag and leaves tag as it was when
\* free_area_size <= n + HeaderSize; otherwise it makes one tag of
\* free_area_size n at addr_free_area + (old free_area_size - (n + H)), which
\* ends where the old free area ended, and tag keeps its address and loses
\* exactly n + HeaderSize of free_area_size.
C10_SplitThreshold ==
    [][(ops' = ops + 1 /\ last'.op = "divide") =>
          \A t \in last'.x :
              LET n == last'.size
                  f == mem[t].free_area_size
              IN  IF f <= n + HeaderSize
                  THEN /\ last'.ret = {}
                       /\ DOMAIN mem' = DOMAIN mem
                       /\ mem'[t] = mem[t]
                  ELSE \E a \in last'.ret :
                         /\ last'.ret = {a}
                         /\ a = addr_free_area(t) + (f - (n + HeaderSize))
                         /\ a \in DOMAIN mem'
                         /\ mem'[a].free_area_size = n
                         /\ addr_free_area(a) + n = addr_free_area(t) + f
                         /\ (DOMAIN mem') \ (DOMAIN mem) \subseteq {a}
                         /\ t \in DOMAIN mem'
                         /\ mem'[t].free_area_size = f - (n + HeaderSize)]_vars

\* C10: a divide has produced a new tag of the requested size.
C10_SplitMade ==
    /\ last.op = "divide"
    /\ last.ret # {}
    /\ \A a \in last.ret : mem[a].free_area_size = last.size

\* The headers of region r, and the region as from_memory leaves it.
RegionMem(m, r) == [a \in RegionTags(m, r) |-> m[a]]

FreshRegionMem(r) == [a \in {r.addr} |-> FreshTag(r.size)]

\* Region r holds exactly what divide(tag, n) makes of a fresh tag.
SplitOfFresh(m, r, n) ==
    /\ n + HeaderSize < r.size - HeaderSize
    /\ RegionMem(m, r) = divide(FreshRegionMem(r), r.addr, n).mem

\* C11: when a region holds a fresh tag split once, merging the two tags, in
\* either argument order, returns the original address and leaves one tag
\* there with the original free_area_size, is_sentinel, not allocated, and
\* with neither neighbour.
C11_SplitMergeRoundTrip ==
    [][(ops' = ops + 1 /\ last'.op = "merge") =>
          \A r \in RegionSet, n \in Sizes :
              (SplitOfFresh(mem, r, n)
                  /\ last'.x \cup last'.y = RegionTags(mem, r))
              => /\ ~last'.panic
                 /\ last'.ret = {r.addr}
                 /\ RegionMem(mem', r) = FreshRegionMem(r)]_vars

\* C11: a split of a fresh tag was merged back with the tail tag given as
\* the first argument.
C11_MergedBackReversed ==
    /\ ops = 2
    /\ last.op = "merge"
    /\ ~last.panic
    /\ last.y = last.ret
    /\ last.x # last.y
    /\ \E r \in RegionSet : last.ret = {r.addr} /\ RegionMem(mem, r) = FreshRegionMem(r)

\* C12: after a successful divide producing (front, tail), front is the
\* prev of tail and tail the next of front, never the other way round, and
\* prev_tag_of(tail) is front; a freshly initialized tag has no prev.
C12_AdjacencySymmetry ==
    /\ ops = 0 => \A a \in DOMAIN mem : prev_tag_of(mem, a) = {}
    /\ (last.op = "divide" /\ last.ret # {}) =>
          \A front \in last.x, tail \in last.ret :
              /\ is_prev_of(mem, front, tail)
              /\ is_next_of(mem, tail, front)
              /\ ~is_prev_of(mem, tail, front)
              /\ ~is_next_of(mem, front, tail)
              /\ prev_tag_of(mem, tail) = {front}

\* C12: a tag that is not a region's first tag has been divided.
C12_InnerTagDivided ==
    /\ last.op = "divide"
    /\ last.ret # {}
    /\ \A front \in last.x : prev_tag_of(mem, front) # {}

\* C13 (as claimed): constructing the manager over zero regions panics and
\* never yields a manager with an empty tag set, whatever the build.
C13_ConstructionFailsFast ==
    (Len(regions) = 0 /\ last.op # "start") => (last.op = "new" /\ last.panic)

\* C14 (as claimed): the tag a successful divide creates takes over the
\* divided tag's old is_sentinel and old next_tag_addr, and its
\* prev_tag_addr is the divided tag; it is the sentinel only when the
\* divided tag was.
C14_SplitInheritsLinks ==
    [][(ops' = ops + 1 /\ last'.op = "divide" /\ last'.ret # {}) =>
          \A t \in last'.x, a \in last'.ret :
              /\ mem'[a].is_sentinel = mem[t].is_sentinel
              /\ mem'[a].next_tag_addr = mem[t].next_tag_addr
              /\ mem'[a].prev_tag_addr = {t}]_vars

\* C15 (as claimed): merge adds HeaderSize + next.free_area_size to prev,
\* copies next's is_sentinel and next_tag_addr to prev and, when next had a
\* successor, makes that successor's prev_tag_addr the address of prev.
C15_MergeRepointsSuccessor ==
    [][(ops' = ops + 1 /\ last'.op = "merge" /\ ~last'.panic) =>
          \A pv \in last'.ret :
              LET nx == The((last'.x \cup last'.y) \ {pv})
              IN  /\ mem'[pv].free_area_size =
                       mem[pv].free_area_size + HeaderSize + mem[nx].free_area_size
                  /\ mem'[pv].is_sentinel = mem[nx].is_sentinel
                  /\ mem'[pv].next_tag_addr = mem[nx].next_tag_addr
                  /\ \A s \in mem[nx].next_tag_addr :
                         s \in DOMAIN mem' => prev_tag_of(mem', s) = {pv}]_vars

\* C16: merge(a, b) panics and writes nothing unless exactly one of
\* a.is_prev_of(b), a.is_next_of(b) holds; when exactly one holds, the tag
\* at the lower address is the one returned and the other one is absorbed,
\* whichever was passed first.
C16_MergeAdjacency ==
    [][(ops' = ops + 1 /\ last'.op = "merge") =>
          \A a \in last'.x, b \in last'.y :
              IF is_prev_of(mem, a, b) = is_next_of(mem, a, b)
              THEN last'.panic /\ last'.ret = {} /\ mem' = mem
              ELSE /\ ~last'.panic
                   /\ a # b
                   /\ last'.ret = {Min({a, b})}
                   /\ Min({a, b}) \in DOMAIN mem'
                   /\ Max({a, b}) \notin DOMAIN mem']_vars

\* C16: merge has panicked on two distinct tags of one region.
C16_NonNeighboursPanicked ==
    /\ last.op = "merge"
    /\ last.panic
    /\ last.x # last.y
    /\ \E r \in RegionSet : last.x \cup last.y \subseteq RegionTags(mem, r)

\* The calls of hist that returned a block still outstanding.
LiveCalls ==
    { i \in 1..Len(hist) :
        hist[i].op = "malloc" /\ hist[i].ret # {} /\ hist[i].ret \subseteq outstanding }

\* [a1, a1 + n1) and [a2, a2 + n2) share no byte.
Disjoint(a1, n1, a2, n2) == a1 + n1 <= a2 \/ a2 + n2 <= a1

\* C17: the blocks [p, p + size) returned by malloc and not yet freed are
\* pairwise disjoint, each lies inside one region, and none shares a byte
\* with the header of any tag.
C17_NoOverlap ==
    \A i \in LiveCalls :
        LET p == The(hist[i].ret)
            n == hist[i].size
        IN  /\ \E r \in RegionSet : r.addr <= p /\ p + n <= r.addr + r.size
            /\ \A j \in LiveCalls \ {i} :
                  Disjoint(p, n, The(hist[j].ret), hist[j].size)
            /\ \A a \in DOMAIN mem : Disjoint(a, HeaderSize, p, n)

\* C17: blocks were allocated before and after a deallocation and two of
\* them are outstanding in one region.
C17_BlocksAroundFree ==
    /\ Len(regions) = 1
    /\ Cardinality(outstanding) >= 2
    /\ \E i \in 1..Len(hist), j \in LiveCalls : hist[i].op = "free" /\ i < j

CeilDiv(a, b) == (a + b - 1) \div b

\* Every call so far was malloc of the same size, on a single region.
RepeatedMalloc ==
    /\ Len(regions) = 1
    /\ Len(hist) >= 1
    /\ \A i \in 1..Len(hist) : hist[i].op = "malloc" /\ hist[i].size = hist[1].size

\* C18: on one fresh region of length L, repeated malloc of n bytes succeeds
\* on exactly the first ceil((L - H) / (n + H)) - 1 calls and returns None
\* on every later one; each success takes n + H off the head tag's
\* free_area_size, which never reaches 0.
C18_Exhaustion ==
    RepeatedMalloc =>
        LET L == regions[1].size
            n == hist[1].size
            K == CeilDiv(L - HeaderSize, n + HeaderSize) - 1
            done == { i \in 1..Len(hist) : hist[i].ret # {} }
        IN  /\ done = { i \in 1..Len(hist) : i <= K }
            /\ mem[regions[1].addr].free_area_size =
                  (L - HeaderSize) - (n + HeaderSize) * Cardinality(done)
            /\ mem[regions[1].addr].free_area_size > 0

\* C18: the region was exhausted: a malloc succeeded and the next one of the
\* same size returned None.
C18_Exhausted ==
    /\ RepeatedMalloc
    /\ Len(hist) >= 2
    /\ hist[Len(hist) - 1].ret # {}
    /\ hist[Len(hist)].ret = {}

\* C19: a successful malloc adds one header, that of the new tail tag,
\* leaves every tag other than the selected one as it was, and leaves the
\* selected tag at its address, not allocated and with its prev_tag_addr.
C19_AllocateFrame ==
    [][(ops' = ops + 1 /\ last'.op = "malloc" /\ last'.ret # {}) =>
          \A t \in last'.x, p \in last'.ret :
              LET a == p - HeaderSize
              IN  /\ a \notin DOMAIN mem
                  /\ DOMAIN mem' = (DOMAIN mem) \cup {a}
                  /\ \A b \in (DOMAIN mem) \ {t} : mem'[b] = mem[b]
                  /\ ~mem[t].is_alloc
                  /\ ~mem'[t].is_alloc
                  /\ mem'[t].prev_tag_addr = mem[t].prev_tag_addr]_vars

\* C19: a malloc succeeded while another region and an earlier allocated
\* block existed.
C19_AllocatedBesideOthers ==
    /\ last.op = "malloc"
    /\ last.ret # {}
    /\ Len(regions) = 2
    /\ \E a \in DOMAIN mem : mem[a].is_alloc /\ addr_free_area(a) \notin last.ret

====
